---- MODULE Spec2Model ----
(***************************************************************************)
(* Model of app.py, the "keep the apartment and pay the mortgage vs sell   *)
(* and invest" calculator.                                                 *)
(*                                                                         *)
(* app.py is a Streamlit script: it is re-executed top to bottom each time *)
(* a widget changes, so the only state that survives a run is the widget   *)
(* values (the VARIABLES below).  Every other module-level name of the     *)
(* script (months, idx_m, mortgage_payment, apt_series_s1, debt_series_s1, *)
(* equity_series_s2, y_max, ...) is recomputed from the widget values on   *)
(* every run and is written here as a state function of the same name.     *)
(*                                                                         *)
(* Numbers.  The script computes with IEEE doubles; the model computes     *)
(* with exact rationals (Rat), so rounding is idealised away.  TLC's       *)
(* integers are 32 bits wide and (1+r)**n with n >= 12 leaves that range at *)
(* once, so a rational is a pair of arbitrary-precision integers kept as   *)
(* sequences of base-Base limbs.  A division by zero yields a rational with *)
(* denominator zero (IsErr), which every later operation propagates.       *)
(* numpy arrays indexed 0..n-1 are sequences indexed 1..n: element k of    *)
(* the array is At(series, k).                                             *)
(***************************************************************************)
EXTENDS Integers, Sequences, FiniteSets, TLC

\* ------------------------------------------------------------------------
\* Arbitrary-precision naturals: little-endian limbs, no leading zero limb,
\* zero is the empty sequence.
\* ------------------------------------------------------------------------
Base == 10 ^ 4

Limb(a, i) == IF i <= Len(a) THEN a[i] ELSE 0

RECURSIVE MagStrip(_)
MagStrip(a) ==
    IF a = <<>> THEN <<>>
    ELSE IF a[Len(a)] = 0 THEN MagStrip(SubSeq(a, 1, Len(a) - 1))
    ELSE a

MagOfNat(x) ==
    IF x = 0 THEN <<>>
    ELSE IF x < Base THEN <<x>>
    ELSE IF x < Base * Base THEN <<x % Base, x \div Base>>
    ELSE <<x % Base, (x \div Base) % Base, x \div (Base * Base)>>

RECURSIVE MagAddFrom(_, _, _, _)
MagAddFrom(a, b, i, carry) ==
    IF i > Len(a) /\ i > Len(b)
    THEN (IF carry = 0 THEN <<>> ELSE <<carry>>)
    ELSE LET s == Limb(a, i) + Limb(b, i) + carry
         IN  <<s % Base>> \o MagAddFrom(a, b, i + 1, s \div Base)

MagAdd(a, b) == MagAddFrom(a, b, 1, 0)

\* a - b for a >= b
RECURSIVE MagSubFrom(_, _, _, _)
MagSubFrom(a, b, i, borrow) ==
    IF i > Len(a) THEN <<>>
    ELSE LET d == Limb(a, i) - Limb(b, i) - borrow
         IN  IF d < 0
             THEN <<d + Base>> \o MagSubFrom(a, b, i + 1, 1)
             ELSE <<d>> \o MagSubFrom(a, b, i + 1, 0)

MagSub(a, b) == MagStrip(MagSubFrom(a, b, 1, 0))

\* -1, 0, 1 as a < b, a = b, a > b
RECURSIVE MagCmpFrom(_, _, _)
MagCmpFrom(a, b, i) ==
    IF i = 0 THEN 0
    ELSE IF a[i] < b[i] THEN -1
    ELSE IF a[i] > b[i] THEN 1
    ELSE MagCmpFrom(a, b, i - 1)

MagCmp(a, b) ==
    IF Len(a) < Len(b) THEN -1
    ELSE IF Len(a) > Len(b) THEN 1
    ELSE MagCmpFrom(a, b, Len(a))

RECURSIVE MagMulLimbFrom(_, _, _, _)
MagMulLimbFrom(a, d, i, carry) ==
    IF i > Len(a)
    THEN (IF carry = 0 THEN <<>> ELSE <<carry>>)
    ELSE LET s == a[i] * d + carry
         IN  <<s % Base>> \o MagMulLimbFrom(a, d, i + 1, s \div Base)

MagMulLimb(a, d) == IF d = 0 THEN <<>> ELSE MagMulLimbFrom(a, d, 1, 0)

MagShift(a) == IF a = <<>> THEN <<>> ELSE <<0>> \o a

\* schoolbook product, from the top limb of b down; acc is evaluated at each
\* step (the test on it) so that no chain of suspended sums builds up
RECURSIVE MagMulAcc(_, _, _, _)
MagMulAcc(a, b, i, acc) ==
    IF i = 0 THEN acc
    ELSE LET next == MagAdd(MagMulLimb(a, b[i]), MagShift(acc))
         IN  IF Len(next) >= 0 THEN MagMulAcc(a, b, i - 1, next) ELSE <<>>

MagMul(a, b) ==
    IF a = <<>> \/ b = <<>> THEN <<>>
    ELSE IF Len(a) = 1 /\ Len(b) = 1 THEN MagOfNat(a[1] * b[1])
    ELSE IF Len(b) <= Len(a) THEN MagMulAcc(a, b, Len(b), <<>>)
    ELSE MagMulAcc(b, a, Len(a), <<>>)

\* ------------------------------------------------------------------------
\* Signed integers [sg, mag] and rationals [num, den] over them.
\* ------------------------------------------------------------------------
BigOf(sg, mag) == IF mag = <<>> THEN [sg |-> 0, mag |-> <<>>]
                  ELSE [sg |-> sg, mag |-> mag]

BigOfInt(x) == IF x < 0 THEN BigOf(-1, MagOfNat(-x)) ELSE BigOf(1, MagOfNat(x))

BigNeg(a) == BigOf(-a.sg, a.mag)

BigAdd(a, b) ==
    IF a.sg = 0 THEN b
    ELSE IF b.sg = 0 THEN a
    ELSE IF a.sg = b.sg THEN BigOf(a.sg, MagAdd(a.mag, b.mag))
    ELSE LET c == MagCmp(a.mag, b.mag)
         IN  IF c = 0 THEN BigOf(0, <<>>)
             ELSE IF c > 0 THEN BigOf(a.sg, MagSub(a.mag, b.mag))
             ELSE BigOf(b.sg, MagSub(b.mag, a.mag))

BigMulMag(a, m) == BigOf(a.sg, MagMul(a.mag, m))

BigMul(a, b) == BigOf(a.sg * b.sg, MagMul(a.mag, b.mag))

\* A rational: num a signed integer, den a magnitude; den = <<>> is the
\* result of a division by zero.
Rat(n, d) == [num |-> BigOfInt(n), den |-> MagOfNat(d)]

RatOfInt(x) == Rat(x, 1)

RECURSIVE Gcd(_, _)
Gcd(a, b) == IF b = 0 THEN a ELSE Gcd(b, a % b)

\* the same value in lowest terms, when it is zero or numerator and
\* denominator are one limb each (a double has one representation per value;
\* this keeps the pairs standing for the small ones small)
RatReduce(x) ==
    IF x.num.mag = <<>> /\ x.den # <<>>
    THEN [num |-> [sg |-> 0, mag |-> <<>>], den |-> <<1>>]
    ELSE IF Len(x.num.mag) = 1 /\ Len(x.den) = 1
    THEN LET g == Gcd(x.num.mag[1], x.den[1])
         IN  [num |-> [sg |-> x.num.sg, mag |-> <<x.num.mag[1] \div g>>],
              den |-> <<x.den[1] \div g>>]
    ELSE x

IsErr(x) == x.den = <<>>

RatAdd(x, y) ==
    RatReduce(
      IF x.den = y.den
      THEN [num |-> BigAdd(x.num, y.num), den |-> x.den]
      ELSE [num |-> BigAdd(BigMulMag(x.num, y.den), BigMulMag(y.num, x.den)),
            den |-> MagMul(x.den, y.den)])

RatNeg(x) == [num |-> BigNeg(x.num), den |-> x.den]

RatSub(x, y) == RatAdd(x, RatNeg(y))

RatMul(x, y) ==
    RatReduce([num |-> BigMul(x.num, y.num), den |-> MagMul(x.den, y.den)])

\* x / y; y = 0 gives denominator zero (ZeroDivisionError / inf, nan)
RatDiv(x, y) ==
    RatReduce([num |-> BigOf(x.num.sg * y.num.sg, MagMul(x.num.mag, y.den)),
               den |-> MagMul(x.den, y.num.mag)])

\* the sign of x - y: -1, 0, 1
RatCmp(x, y) ==
    BigAdd(BigMulMag(x.num, y.den), BigNeg(BigMulMag(y.num, x.den))).sg

RatEq(x, y) == ~IsErr(x) /\ ~IsErr(y) /\ RatCmp(x, y) = 0
RatLt(x, y) == ~IsErr(x) /\ ~IsErr(y) /\ RatCmp(x, y) < 0
RatLe(x, y) == ~IsErr(x) /\ ~IsErr(y) /\ RatCmp(x, y) <= 0
RatSign(x)  == x.num.sg

RatMax(x, y) == IF RatCmp(x, y) >= 0 THEN x ELSE y
RatMin(x, y) == IF RatCmp(x, y) <= 0 THEN x ELSE y

Zero == RatOfInt(0)
One  == RatOfInt(1)

\* <<x^0, x^1, ..., x^n>>: the powers x ** e for e = 0..n, by repeated
\* multiplication
RECURSIVE RatPowers(_, _)
RatPowers(x, n) ==
    IF n <= 0 THEN <<One>>
    ELSE LET t == RatPowers(x, n - 1)
         IN  Append(t, RatMul(t[n], x))

\* np.arange(n): 0, 1, ..., n-1; empty when n <= 0
arange(n) == [i \in 1..n |-> i - 1]

\* element k (0-based) of an array
At(series, k) == series[k + 1]

\* np.max of an array; of an empty array it raises ValueError (IsErr).
\* The test on next evaluates it before the next step.
RECURSIVE MaxFrom(_, _, _)
MaxFrom(series, i, best) ==
    IF i > Len(series) THEN best
    ELSE LET next == RatMax(best, series[i])
         IN  IF Len(next.den) >= 0 THEN MaxFrom(series, i + 1, next) ELSE next

np_max(series) ==
    IF series = <<>> THEN Rat(0, 0) ELSE MaxFrom(series, 2, series[1])

\* ------------------------------------------------------------------------
\* The widgets (st.number_input), the state that survives a run.
\* ------------------------------------------------------------------------
VARIABLES
    years_projection,   \* "Projection Years"
    apt_value,          \* "Apartment Value (ILS)"
    re_growth_pct,      \* "Annual Real Estate Growth (%)"
    monthly_rent,       \* "Monthly Rent income (ILS)"
    mortgage_amount,    \* "Mortgage Amount (ILS)"
    mortgage_years,     \* "Mortgage Years"
    mortgage_rate_pct,  \* "Mortgage Annual Rate (%)"
    initial_deposit,    \* "Initial deposit (ILS)"
    monthly_deposit,    \* "Monthly Deposit (ILS)"
    stock_return_pct    \* "Annual Stock Market Return (%)"

vars == <<years_projection, apt_value, re_growth_pct, monthly_rent,
          mortgage_amount, mortgage_years, mortgage_rate_pct,
          initial_deposit, monthly_deposit, stock_return_pct>>

\* Bounds of the model: the largest year count and the largest amount tried.
MaxYears  == 2
MaxAmount == 2

\* min_value of the two year widgets and of the amount widgets
MinProjectionYears == 1
MinMortgageYears   == 1
MinAmount          == 0

ProjectionYears == MinProjectionYears..MaxYears
MortgageYears   == MinMortgageYears..MaxYears
Amounts         == MinAmount..MaxAmount
\* annual percentages tried (min_value = 0.0): 0, and those giving the monthly
\* rates 1/2 and 2
Pcts            == {0, 600, 2400}

\* ------------------------------------------------------------------------
\* The script, top to bottom.
\* ------------------------------------------------------------------------
\* (annual_pct / 100.0) / 12.0: the monthly rate of an annual percentage
monthly_rate(annual_pct) ==
    RatDiv(RatDiv(RatOfInt(annual_pct), RatOfInt(100)), RatOfInt(12))

\* Faulty variants of annuity_payment: the straight-line payment at every
\* rate, and the payment with (1 + r) ** n, not (1 + r) ** n - 1, as divisor
\* (which only pays the interest).
annuity_payment_straight_line(P, r, n) == RatDiv(RatOfInt(P), RatOfInt(n))

annuity_payment_interest_only(P, r, n) ==
    LET g == RatPowers(RatAdd(One, r), n)[n + 1]
    IN  RatDiv(RatMul(RatOfInt(P), RatMul(r, g)), g)

\* P * (r * (1 + r) ** n) / ((1 + r) ** n - 1)
annuity_payment(P, r, n) ==
    LET g == RatPowers(RatAdd(One, r), n)[n + 1]
    IN  RatDiv(RatMul(RatOfInt(P), RatMul(r, g)), RatSub(g, One))

n_pay == mortgage_years * 12

r_m == monthly_rate(mortgage_rate_pct)

\* Faulty variant of mortgage_payment: the test r_m > 0 left out.
mortgage_payment_no_zero_rate_branch ==
    IF mortgage_amount > 0 /\ n_pay > 0
    THEN annuity_payment(mortgage_amount, r_m, n_pay)
    ELSE Zero

mortgage_payment ==
    IF mortgage_amount > 0 /\ n_pay > 0
    THEN IF RatSign(r_m) > 0
         THEN annuity_payment(mortgage_amount, r_m, n_pay)
         ELSE RatDiv(RatOfInt(mortgage_amount), RatOfInt(n_pay))
    ELSE Zero

net_monthly_after_rent == RatSub(mortgage_payment, RatOfInt(monthly_rent))

months == years_projection * 12

idx_m == arange(months + 1)

re_growth == RatDiv(RatOfInt(re_growth_pct), RatOfInt(100))

stock_return == RatDiv(RatOfInt(stock_return_pct), RatOfInt(100))

apt_series_s1 ==
    LET g  == RatAdd(One, RatDiv(re_growth, RatOfInt(12)))
        pw == RatPowers(g, months)
    IN  [i \in DOMAIN idx_m |-> RatMul(RatOfInt(apt_value), pw[idx_m[i] + 1])]

Min(a, b) == IF a <= b THEN a ELSE b

\* Faulty variant of remaining_balance: the division by r left out.
remaining_balance_no_rate_division(P, r, M, g_m) ==
    RatSub(RatMul(RatOfInt(P), g_m), RatMul(M, RatSub(g_m, One)))

\* P * (1 + r) ** m - M * (((1 + r) ** m - 1) / r), g_m standing for (1 + r) ** m
remaining_balance(P, r, M, g_m) ==
    RatSub(RatMul(RatOfInt(P), g_m), RatMul(M, RatDiv(RatSub(g_m, One), r)))

mortgage_balance_series(P, annual_rate_pct, years_term, months_horizon) ==
    LET n == years_term * 12
        r == monthly_rate(annual_rate_pct)
        k == arange(months_horizon + 1)
        m == [i \in DOMAIN k |-> Min(k[i], n)]
    IN  IF P <= 0 \/ n <= 0
        THEN [i \in DOMAIN k |-> Zero]
        ELSE IF RatSign(r) = 0
        THEN [i \in DOMAIN k |->
                IF k[i] > n THEN Zero
                ELSE RatMul(RatOfInt(P),
                            RatSub(One, RatDiv(RatOfInt(m[i]), RatOfInt(n))))]
        ELSE LET pw == RatPowers(RatAdd(One, r), n)
                 M  == annuity_payment(P, r, n)
             IN  [i \in DOMAIN k |->
                    IF k[i] > n THEN Zero
                    ELSE RatMax(Zero, remaining_balance(P, r, M, pw[m[i] + 1]))]

\* The schedule the specification describes for "keep and finance": the same
\* balance with a constant extra principal payment each period, floored at 0.
\* app.py has no such function; it is what debt_series_s1 is compared with.
accelerated_balance_series(P, annual_rate_pct, years_term, months_horizon, extra) ==
    LET n == years_term * 12
        r == monthly_rate(annual_rate_pct)
        k == arange(months_horizon + 1)
    IN  IF P <= 0 \/ n <= 0
        THEN [i \in DOMAIN k |-> Zero]
        ELSE IF RatSign(r) = 0
        THEN [i \in DOMAIN k |->
                RatMax(Zero,
                       RatSub(RatOfInt(P),
                              RatMul(RatOfInt(k[i]),
                                     RatAdd(RatDiv(RatOfInt(P), RatOfInt(n)),
                                            RatOfInt(extra)))))]
        ELSE LET pw == RatPowers(RatAdd(One, r), months_horizon)
                 M  == RatAdd(annuity_payment(P, r, n), RatOfInt(extra))
             IN  [i \in DOMAIN k |->
                    RatMax(Zero, remaining_balance(P, r, M, pw[k[i] + 1]))]

\* Variants of debt_series_s1: accelerated by the monthly rent, and computed
\* over the mortgage's own term instead of the projection horizon.
debt_series_s1_accelerated ==
    accelerated_balance_series(mortgage_amount, mortgage_rate_pct, mortgage_years,
                               months, monthly_rent)

debt_series_s1_native_term ==
    mortgage_balance_series(mortgage_amount, mortgage_rate_pct, mortgage_years, n_pay)

debt_series_s1 ==
    mortgage_balance_series(mortgage_amount, mortgage_rate_pct, mortgage_years, months)

\* Faulty variant of future_value: the division by r left out.
future_value_no_rate_division(initial_lump, monthly_contrib, growth_k, r) ==
    RatAdd(RatMul(RatOfInt(initial_lump), growth_k),
           RatMul(RatOfInt(monthly_contrib), RatSub(growth_k, One)))

\* initial_lump * growth + monthly_contrib * (growth - 1) / r, one element
future_value(initial_lump, monthly_contrib, growth_k, r) ==
    RatAdd(RatMul(RatOfInt(initial_lump), growth_k),
           RatDiv(RatMul(RatOfInt(monthly_contrib), RatSub(growth_k, One)), r))

equity_series(initial_lump, monthly_contrib, annual_return_pct, months_horizon) ==
    LET r == monthly_rate(annual_return_pct)
        k == arange(months_horizon + 1)
    IN  IF RatSign(r) = 0
        THEN [i \in DOMAIN k |->
                RatAdd(RatOfInt(initial_lump),
                       RatMul(RatOfInt(monthly_contrib), RatOfInt(k[i])))]
        ELSE LET growth == RatPowers(RatAdd(One, r), months_horizon)
             IN  [i \in DOMAIN k |->
                    future_value(initial_lump, monthly_contrib, growth[k[i] + 1], r)]

\* max(0, assetValue - loanPrincipal): the sale proceeds net of the payoff
net_sale_proceeds == IF apt_value - mortgage_amount > 0
                     THEN apt_value - mortgage_amount ELSE 0

\* Variant of equity_series_s2: seeded with the net sale proceeds.
equity_series_s2_from_sale ==
    equity_series(net_sale_proceeds, monthly_deposit, stock_return_pct, months)

equity_series_s2 ==
    equity_series(initial_deposit, monthly_deposit, stock_return_pct, months)

\* line 187: the largest value of the three series
y_max_raw ==
    RatMax(RatMax(np_max(apt_series_s1), np_max(debt_series_s1)),
           np_max(equity_series_s2))

\* Faulty variant of y_max: the test y_max > 0 left out.
y_max_unguarded == RatMul(Rat(105, 100), y_max_raw)

\* line 188
y_max ==
    IF IsErr(y_max_raw) THEN y_max_raw
    ELSE IF RatSign(y_max_raw) > 0 THEN RatMul(Rat(105, 100), y_max_raw)
    ELSE One

\* ------------------------------------------------------------------------
\* One action per widget: the user sets it and the script runs again.
\* ------------------------------------------------------------------------
SetYearsProjection ==
    /\ \E v \in ProjectionYears : years_projection' = v
    /\ UNCHANGED <<apt_value, re_growth_pct, monthly_rent, mortgage_amount,
                   mortgage_years, mortgage_rate_pct, initial_deposit,
                   monthly_deposit, stock_return_pct>>

SetAptValue ==
    /\ \E v \in Amounts : apt_value' = v
    /\ UNCHANGED <<years_projection, re_growth_pct, monthly_rent, mortgage_amount,
                   mortgage_years, mortgage_rate_pct, initial_deposit,
                   monthly_deposit, stock_return_pct>>

SetReGrowthPct ==
    /\ \E v \in Pcts : re_growth_pct' = v
    /\ UNCHANGED <<years_projection, apt_value, monthly_rent, mortgage_amount,
                   mortgage_years, mortgage_rate_pct, initial_deposit,
                   monthly_deposit, stock_return_pct>>

SetMonthlyRent ==
    /\ \E v \in Amounts : monthly_rent' = v
    /\ UNCHANGED <<years_projection, apt_value, re_growth_pct, mortgage_amount,
                   mortgage_years, mortgage_rate_pct, initial_deposit,
                   monthly_deposit, stock_return_pct>>

SetMortgageAmount ==
    /\ \E v \in Amounts : mortgage_amount' = v
    /\ UNCHANGED <<years_projection, apt_value, re_growth_pct, monthly_rent,
                   mortgage_years, mortgage_rate_pct, initial_deposit,
                   monthly_deposit, stock_return_pct>>

SetMortgageYears ==
    /\ \E v \in MortgageYears : mortgage_years' = v
    /\ UNCHANGED <<years_projection, apt_value, re_growth_pct, monthly_rent,
                   mortgage_amount, mortgage_rate_pct, initial_deposit,
                   monthly_deposit, stock_return_pct>>

SetMortgageRatePct ==
    /\ \E v \in Pcts : mortgage_rate_pct' = v
    /\ UNCHANGED <<years_projection, apt_value, re_growth_pct, monthly_rent,
                   mortgage_amount, mortgage_years, initial_deposit,
                   monthly_deposit, stock_return_pct>>

SetInitialDeposit ==
    /\ \E v \in Amounts : initial_deposit' = v
    /\ UNCHANGED <<years_projection, apt_value, re_growth_pct, monthly_rent,
                   mortgage_amount, mortgage_years, mortgage_rate_pct,
                   monthly_deposit, stock_return_pct>>

SetMonthlyDeposit ==
    /\ \E v \in Amounts : monthly_deposit' = v
    /\ UNCHANGED <<years_projection, apt_value, re_growth_pct, monthly_rent,
                   mortgage_amount, mortgage_years, mortgage_rate_pct,
                   initial_deposit, stock_return_pct>>

SetStockReturnPct ==
    /\ \E v \in Pcts : stock_return_pct' = v
    /\ UNCHANGED <<years_projection, apt_value, re_growth_pct, monthly_rent,
                   mortgage_amount, mortgage_years, mortgage_rate_pct,
                   initial_deposit, monthly_deposit>>

\* The first run.  The widgets' defaults (20 years, 1,900,000 ILS, 5.5 %, ...)
\* lie outside the modelled ranges, so the first run has every widget at a value
\* of its modelled range; amounts are in an arbitrary unit of currency.
Init ==
    /\ years_projection = MinProjectionYears
    /\ apt_value = MaxAmount
    /\ re_growth_pct = 0
    /\ monthly_rent = MinAmount
    /\ mortgage_amount = MaxAmount
    /\ mortgage_years = MinMortgageYears
    /\ mortgage_rate_pct = 0
    /\ initial_deposit = MinAmount
    /\ monthly_deposit = MinAmount
    /\ stock_return_pct = 0

Next ==
    \/ SetYearsProjection
    \/ SetAptValue
    \/ SetReGrowthPct
    \/ SetMonthlyRent
    \/ SetMortgageAmount
    \/ SetMortgageYears
    \/ SetMortgageRatePct
    \/ SetInitialDeposit
    \/ SetMonthlyDeposit
    \/ SetStockReturnPct

Spec == Init /\ [][Next]_vars

\* The scenario "keep and finance": the widgets the mortgage reads.
NextMortgage ==
    \/ SetYearsProjection
    \/ SetMonthlyRent
    \/ SetMortgageAmount
    \/ SetMortgageYears
    \/ SetMortgageRatePct

SpecMortgage == Init /\ [][NextMortgage]_vars


\* The scenario "sell and invest": the widgets the portfolio reads, and the
\* two the sale proceeds would be computed from.
NextEquity ==
    \/ SetYearsProjection
    \/ SetAptValue
    \/ SetMortgageAmount
    \/ SetInitialDeposit
    \/ SetMonthlyDeposit
    \/ SetStockReturnPct

SpecEquity == Init /\ [][NextEquity]_vars

\* The chart's scale: the widgets that set the height of the three curves.
NextChart ==
    \/ SetYearsProjection
    \/ SetAptValue
    \/ SetReGrowthPct
    \/ SetMortgageAmount
    \/ SetInitialDeposit
    \/ SetStockReturnPct

SpecChart == Init /\ [][NextChart]_vars

\* The chart's time axis: the widgets that decide the branch each series
\* takes (the horizon, the term, the principal, the three rates).
NextAxis ==
    \/ SetYearsProjection
    \/ SetMortgageYears
    \/ SetMortgageAmount
    \/ SetMortgageRatePct
    \/ SetReGrowthPct
    \/ SetStockReturnPct

SpecAxis == Init /\ [][NextAxis]_vars

\* The calculations of lines 136-188 entered with a horizon the widget would
\* have refused (min_value = 1): zero or negative years.
UnvalidatedYears == {-1, 0}

InitUnvalidatedHorizon ==
    /\ years_projection \in UnvalidatedYears
    /\ apt_value = MaxAmount
    /\ re_growth_pct = 0
    /\ monthly_rent = MinAmount
    /\ mortgage_amount = MaxAmount
    /\ mortgage_years = MinMortgageYears
    /\ mortgage_rate_pct = 0
    /\ initial_deposit = MinAmount
    /\ monthly_deposit = MinAmount
    /\ stock_return_pct = 0

NextUnvalidatedHorizon ==
    \/ SetAptValue
    \/ SetReGrowthPct
    \/ SetMortgageAmount
    \/ SetInitialDeposit
    \/ SetStockReturnPct

SpecUnvalidatedHorizon ==
    InitUnvalidatedHorizon /\ [][NextUnvalidatedHorizon]_vars

\* ------------------------------------------------------------------------
\* The amortization recurrence of the specification (section 4.1): the payment,
\* and one period's step with a constant extra principal payment.  A series
\* is the recurrence's schedule exactly when it starts at the principal and
\* each element is the step of the one before.
\* ------------------------------------------------------------------------
PeriodicPayment(P, r, n) ==
    IF P <= 0 THEN Zero
    ELSE IF RatSign(r) = 0 THEN RatDiv(RatOfInt(P), RatOfInt(n))
    ELSE LET g == RatPowers(RatAdd(One, r), n)[n + 1]
         IN  RatDiv(RatMul(RatOfInt(P), RatMul(r, g)), RatSub(g, One))

AmortizationStep(balance, r, payment, extra) ==
    LET interest         == RatMul(balance, r)
        principalPortion == RatMin(balance,
                                   RatAdd(RatMax(Zero, RatSub(payment, interest)),
                                          extra))
    IN  RatSub(balance, principalPortion)

FollowsRecurrence(B, P, r, n, extra) ==
    LET payment == PeriodicPayment(P, r, n)
    IN  /\ Len(B) >= 1
        /\ RatEq(At(B, 0), RatOfInt(IF P <= 0 THEN 0 ELSE P))
        /\ \A k \in 1..(Len(B) - 1) :
              RatEq(At(B, k), AmortizationStep(At(B, k - 1), r, payment, RatOfInt(extra)))

\* ------------------------------------------------------------------------
\* Properties.
\* ------------------------------------------------------------------------

\* C1: the balance series of mortgage_balance_series starts at the principal
\* (0 if the principal is <= 0), is never negative, never increases from one
\* index to the next, and stays 0 once it has reached 0.
C1_BalanceSeriesShape ==
    LET B == mortgage_balance_series(mortgage_amount, mortgage_rate_pct,
                                     mortgage_years, months)
    IN  /\ Len(B) >= 1
        /\ RatEq(At(B, 0), RatOfInt(IF mortgage_amount <= 0 THEN 0 ELSE mortgage_amount))
        /\ \A k \in 0..(Len(B) - 1) : ~IsErr(At(B, k)) /\ RatSign(At(B, k)) >= 0
        /\ \A k \in 1..(Len(B) - 1) :
              /\ RatLe(At(B, k), At(B, k - 1))
              /\ RatSign(At(B, k - 1)) = 0 => RatSign(At(B, k)) = 0

C1_Witness ==
    LET B == debt_series_s1
    IN  /\ mortgage_amount > 0 /\ mortgage_rate_pct > 0 /\ months > n_pay
        /\ RatLt(Zero, At(B, 1)) /\ RatLt(At(B, 1), At(B, 0))
        /\ RatSign(At(B, n_pay)) = 0 /\ RatSign(At(B, months)) = 0

\* C2 as claimed: the debt series is the schedule accelerated by the monthly
\* rent: each period the balance drops by max(0, payment - interest) + rent,
\* clamped to the balance, so with rent > 0 it lies strictly below the
\* un-accelerated schedule while that one is positive.
C2_DebtAcceleratedByRent ==
    LET B == debt_series_s1
        U == mortgage_balance_series(mortgage_amount, mortgage_rate_pct,
                                     mortgage_years, months)
    IN  /\ FollowsRecurrence(B, mortgage_amount, r_m, n_pay, monthly_rent)
        /\ \A k \in 1..(Len(B) - 1) :
              (monthly_rent > 0 /\ RatSign(At(U, k)) > 0) => RatLt(At(B, k), At(U, k))

\* C2 amended: the debt series is the schedule with no extra principal
\* payment, whatever the monthly rent: each period the balance drops by
\* max(0, payment - interest) clamped to the balance, and with rent > 0 it
\* lies strictly above the rent-accelerated schedule while it is positive.
\* The rent enters only the net monthly figure, payment - rent.
C2_DebtIgnoresRent ==
    LET B == debt_series_s1
        A == accelerated_balance_series(mortgage_amount, mortgage_rate_pct,
                                        mortgage_years, months, monthly_rent)
    IN  /\ FollowsRecurrence(B, mortgage_amount, r_m, n_pay, 0)
        /\ \A k \in 1..(Len(B) - 1) :
              (monthly_rent > 0 /\ RatSign(At(B, k)) > 0) => RatLt(At(A, k), At(B, k))
        /\ RatEq(RatAdd(net_monthly_after_rent, RatOfInt(monthly_rent)), mortgage_payment)

C2_Witness ==
    /\ monthly_rent > 0 /\ mortgage_amount > 0 /\ mortgage_rate_pct > 0
    /\ months < n_pay
    /\ RatSign(At(debt_series_s1, months)) > 0
    /\ RatLt(At(debt_series_s1_accelerated, months), At(debt_series_s1, months))

\* C3 as claimed: the investment series starts at max(0, apartment value -
\* mortgage amount), which is never negative.
C3_LumpIsNetSaleProceeds ==
    /\ RatEq(At(equity_series_s2, 0), RatOfInt(net_sale_proceeds))
    /\ RatSign(At(equity_series_s2, 0)) >= 0

\* C3 amended: the investment series starts at the "Initial deposit" widget's
\* value, whatever the apartment value and the mortgage amount, and is
\* therefore never negative (the widget's min_value is 0).
C3_LumpIsInitialDeposit ==
    /\ RatEq(At(equity_series_s2, 0), RatOfInt(initial_deposit))
    /\ RatSign(At(equity_series_s2, 0)) >= 0

C3_Witness ==
    /\ initial_deposit # net_sale_proceeds
    /\ apt_value < mortgage_amount
    /\ stock_return_pct > 0
    /\ RatEq(At(equity_series_s2, 0), RatOfInt(initial_deposit))

\* C4: with principal > 0, rate > 0 and a horizon of at least n = 12 * term
\* months, the balance is strictly positive and strictly decreasing at every
\* period before n, is 0 at period n and is 0 at every later period.
C4_PaidOffExactlyAtTerm ==
    LET B == debt_series_s1
    IN  (mortgage_amount > 0 /\ mortgage_rate_pct > 0 /\ months >= n_pay) =>
          /\ \A k \in 0..(n_pay - 1) :
                /\ RatLt(Zero, At(B, k))
                /\ RatLt(At(B, k + 1), At(B, k))
          /\ RatEq(At(B, n_pay), Zero)
          /\ \A k \in (n_pay + 1)..months : RatEq(At(B, k), Zero)

C4_Witness ==
    /\ mortgage_amount > 0 /\ mortgage_rate_pct = 600 /\ months > n_pay
    /\ RatLt(Zero, At(debt_series_s1, n_pay - 1))
    /\ RatEq(At(debt_series_s1, n_pay), Zero)
    /\ RatEq(At(debt_series_s1, n_pay + 1), Zero)

\* C5: with no extra principal, the closed form of mortgage_balance_series is
\* the schedule of the amortization recurrence at every period of the
\* horizon, the periods after the term included: it starts at the principal
\* and each balance is the one before less min(balance, max(0, payment -
\* interest)), the payment being the annuity payment over the term.
C5_ClosedFormIsRecurrence ==
    FollowsRecurrence(
        mortgage_balance_series(mortgage_amount, mortgage_rate_pct, mortgage_years, months),
        mortgage_amount, monthly_rate(mortgage_rate_pct), mortgage_years * 12, 0)

C5_Witness ==
    LET B   == debt_series_s1
        pay == PeriodicPayment(mortgage_amount, r_m, n_pay)
    IN  /\ mortgage_amount > 0 /\ mortgage_rate_pct > 0 /\ months > n_pay
        /\ RatLt(Zero, At(B, 1))
        /\ RatEq(At(B, 1), AmortizationStep(RatOfInt(mortgage_amount), r_m, pay, Zero))
        /\ RatEq(At(B, months), AmortizationStep(At(B, months - 1), r_m, pay, Zero))

\* C8: with rate 0 and principal > 0 the payment is exactly principal / n and
\* the balance falls by exactly principal / n each period up to period n,
\* where it is 0, and stays 0; and neither the payment nor any balance is
\* ever the result of a division by zero.
C8_ZeroRateIsLinear ==
    LET B    == debt_series_s1
        step == RatDiv(RatOfInt(mortgage_amount), RatOfInt(n_pay))
    IN  /\ ~IsErr(mortgage_payment)
        /\ \A k \in 0..(Len(B) - 1) : ~IsErr(At(B, k))
        /\ (mortgage_rate_pct = 0 /\ mortgage_amount > 0) =>
              /\ RatEq(mortgage_payment, step)
              /\ \A k \in 1..(Len(B) - 1) :
                    IF k <= n_pay
                    THEN RatEq(RatSub(At(B, k - 1), At(B, k)), step)
                    ELSE RatEq(At(B, k), Zero)
              /\ months >= n_pay => RatEq(At(B, n_pay), Zero)

C8_Witness ==
    /\ mortgage_rate_pct = 0 /\ mortgage_amount > 0 /\ months > n_pay
    /\ RatEq(mortgage_payment, RatDiv(RatOfInt(mortgage_amount), RatOfInt(n_pay)))
    /\ RatEq(At(debt_series_s1, 1), RatSub(RatOfInt(mortgage_amount), mortgage_payment))
    /\ RatEq(At(debt_series_s1, months), Zero)

\* C7: the series of equity_series starts at the initial lump sum and each
\* element is the one before times (1 + r) plus the contribution, r being the
\* annual return / 12, for r = 0 and for r # 0; with contribution 0 it is
\* initial * (1 + r) ^ k.
C7_EquityFollowsRecurrence ==
    LET E  == equity_series(initial_deposit, monthly_deposit, stock_return_pct, months)
        r  == monthly_rate(stock_return_pct)
        pw == RatPowers(RatAdd(One, r), months)
    IN  /\ Len(E) = months + 1
        /\ RatEq(At(E, 0), RatOfInt(initial_deposit))
        /\ \A k \in 1..months :
              RatEq(At(E, k), RatAdd(RatMul(At(E, k - 1), RatAdd(One, r)),
                                     RatOfInt(monthly_deposit)))
        /\ monthly_deposit = 0 =>
              \A k \in 0..months :
                 RatEq(At(E, k), RatMul(RatOfInt(initial_deposit), At(pw, k)))

C7_Witness ==
    /\ stock_return_pct = 600 /\ monthly_deposit > 0 /\ initial_deposit > 0
    /\ RatEq(At(equity_series_s2, 1),
             RatAdd(RatMul(RatOfInt(initial_deposit), Rat(3, 2)),
                    RatOfInt(monthly_deposit)))
    /\ RatLt(At(equity_series_s2, months - 1), At(equity_series_s2, months))

\* C6: y_max is 1.05 times the largest value of the three plotted series when
\* that value is > 0 and is exactly 1 when no value is > 0; so it is always
\* > 0 and at least 1.05 times every value of every series.
C6_DisplayMax ==
    LET top         == y_max
        scale       == Rat(105, 100)
        Plotted     == <<apt_series_s1, debt_series_s1, equity_series_s2>>
        Covers(S)   == \A i \in DOMAIN S : RatLe(RatMul(scale, S[i]), top)
        Attains(S)  == \E i \in DOMAIN S : RatEq(top, RatMul(scale, S[i]))
        Positive(S) == \E i \in DOMAIN S : RatSign(S[i]) > 0
        anyPos      == \E s \in 1..3 : Positive(Plotted[s])
    IN  /\ ~IsErr(top)
        /\ RatSign(top) > 0
        /\ \A s \in 1..3 : Covers(Plotted[s])
        /\ anyPos => \E s \in 1..3 : Attains(Plotted[s])
        /\ ~anyPos => RatEq(top, One)

C6_WitnessDegenerate ==
    /\ apt_value = 0 /\ mortgage_amount = 0 /\ initial_deposit = 0
    /\ monthly_deposit = 0
    /\ RatEq(y_max, One)

\* C9: for a horizon of years_projection >= 1 years the apartment-value, the
\* mortgage-debt and the equity series all have length 12 * years_projection
\* + 1, on the one axis 0..12 * years_projection (idx_m).
C9_SeriesShareAxis ==
    years_projection >= 1 =>
        /\ Len(idx_m) = years_projection * 12 + 1
        /\ \A k \in 0..(years_projection * 12) : At(idx_m, k) = k
        /\ DOMAIN apt_series_s1 = DOMAIN idx_m
        /\ DOMAIN debt_series_s1 = DOMAIN idx_m
        /\ DOMAIN equity_series_s2 = DOMAIN idx_m

C9_Witness ==
    /\ mortgage_years < years_projection
    /\ mortgage_amount > 0 /\ mortgage_rate_pct > 0
    /\ Len(debt_series_s1) = years_projection * 12 + 1
    /\ Len(apt_series_s1) = Len(debt_series_s1)

====
